---- MODULE Spec2Model ----
(***************************************************************************)
(* A model of the two documentation maintenance scripts of beluga-ai:      *)
(*   fix_mdx.py            entity decoding, fenced-code-block repair,      *)
(*                         empty-block removal and JSX escaping            *)
(*   scripts/fix-doc-links.py   the link rewriting pass                    *)
(*                                                                         *)
(* A text is a sequence of characters, a character a one-character string. *)
(* A document body is a sequence of lines (the result of split('\n')).     *)
(* Python indexes from 0; the sequences here index from 1, so the source's *)
(* i, j are the model's i - 1, j - 1 and "i < len(lines)" reads            *)
(* "i <= Len(lines)".                                                      *)
(***************************************************************************)
EXTENDS Naturals, Integers, Sequences, FiniteSets, TLC

(***************************************************************************)
(* Characters and the string methods the scripts use.                      *)
(***************************************************************************)
Lower == {"a","b","c","d","e","f","g","h","i","j","k","l","m",
          "n","o","p","q","r","s","t","u","v","w","x","y","z"}
Upper == {"A","B","C","D","E","F","G","H","I","J","K","L","M",
          "N","O","P","Q","R","S","T","U","V","W","X","Y","Z"}
Digit == {"0","1","2","3","4","5","6","7","8","9"}

\* str.isalpha() on one character
isalpha(c) == c \in Lower \cup Upper

\* the regex class \d
isdigit(c) == c \in Digit

\* the regex class \s, and what str.strip() and str.split() take for whitespace
isspace(c) == c \in {" ", "\t", "\n"}

\* s[p:] of Python, p counted from 0
From(s, p) == IF p >= Len(s) THEN << >> ELSE SubSeq(s, p + 1, Len(s))

\* s[:p] of Python
Upto(s, p) == IF p <= 0 THEN << >> ELSE SubSeq(s, 1, IF p > Len(s) THEN Len(s) ELSE p)

\* s.startswith(p)
startswith(s, p) == Len(s) >= Len(p) /\ SubSeq(s, 1, Len(p)) = p

\* s[k:].startswith(p): p occurs in s at offset k (from 0)
At(s, k, p) == k + Len(p) <= Len(s) /\ SubSeq(s, k + 1, k + Len(p)) = p

\* s.find(p, k): the least offset >= k (from 0) where p occurs, -1 when there is none
RECURSIVE findFrom(_, _, _)
findFrom(s, p, k) ==
    IF k + Len(p) > Len(s) THEN -1
    ELSE IF At(s, k, p) THEN k
    ELSE findFrom(s, p, k + 1)

\* s.find(p)
find(s, p) == findFrom(s, p, 0)

\* p in s
contains(s, p) == \E k \in 0..Len(s) : At(s, k, p)

\* the number of leading whitespace characters of s
RECURSIVE LeadingSpace(_)
LeadingSpace(s) ==
    IF s = << >> \/ ~isspace(Head(s)) THEN 0 ELSE 1 + LeadingSpace(Tail(s))

RECURSIVE TrailingSpace(_)
TrailingSpace(s) ==
    IF s = << >> \/ ~isspace(s[Len(s)]) THEN 0
    ELSE 1 + TrailingSpace(SubSeq(s, 1, Len(s) - 1))

lstrip(s) == From(s, LeadingSpace(s))

\* s.strip()
strip(s) == LET l == lstrip(s) IN Upto(l, Len(l) - TrailingSpace(l))

\* len(s.split()): the number of maximal runs of non-whitespace characters
NumWords(s) ==
    Cardinality({k \in 1..Len(s) : ~isspace(s[k]) /\ (k = 1 \/ isspace(s[k - 1]))})

\* s.split()[0] for an s that has a word
FirstWord(s) ==
    LET l == lstrip(s)
        n == IF \E k \in 1..Len(l) : isspace(l[k])
             THEN (CHOOSE k \in 1..Len(l) : isspace(l[k]) /\ \A h \in 1..(k - 1) : ~isspace(l[h])) - 1
             ELSE Len(l)
    IN  Upto(l, n)

\* '\n'.join(ls)
RECURSIVE join(_)
join(ls) ==
    IF ls = << >> THEN << >>
    ELSE IF Len(ls) = 1 THEN ls[1]
    ELSE ls[1] \o <<"\n">> \o join(Tail(ls))

\* s.split('\n')
RECURSIVE split(_)
split(s) ==
    LET k == find(s, <<"\n">>)
    IN  IF k = -1 THEN <<s>> ELSE <<Upto(s, k)>> \o split(From(s, k + 1))

\* The backquote character. The lexer of TLA+ takes no backquote inside a string,
\* so the character is written by name.
BQ == "backquote"

\* the fence marker, three backquotes
FENCE == <<BQ, BQ, BQ>>

(***************************************************************************)
(* The line classifiers of fix_mdx.py.                                     *)
(***************************************************************************)
\* t.startswith(ps) for a tuple ps of prefixes
startswithAny(t, ps) == \E p \in ps : startswith(t, p)

\* the length of the longest prefix of s matching [a-zA-Z_][a-zA-Z0-9_]*, 0 when
\* s does not start with [a-zA-Z_]
RECURSIVE IdentTail(_)
IdentTail(s) ==
    IF s # << >> /\ (isalpha(Head(s)) \/ isdigit(Head(s)) \/ Head(s) = "_")
    THEN 1 + IdentTail(Tail(s)) ELSE 0

IdentLen(s) ==
    IF s # << >> /\ (isalpha(Head(s)) \/ Head(s) = "_") THEN 1 + IdentTail(Tail(s)) ELSE 0

\* re.match(r'^\s*(//|/\*|\*/)', line)
MatchComment(line) ==
    startswithAny(lstrip(line), {<<"/", "/">>, <<"/", "*">>, <<"*", "/">>})

\* re.match(r'^\s*(return|defer|go)\s', line)
MatchKeyword(line) ==
    \E kw \in {<<"r","e","t","u","r","n">>, <<"d","e","f","e","r">>, <<"g","o">>} :
        LET l == lstrip(line)
        IN  startswith(l, kw) /\ Len(l) > Len(kw) /\ isspace(l[Len(kw) + 1])

\* re.match(r'^\s*[a-zA-Z_][a-zA-Z0-9_]*\s*:=', line)
MatchShortDecl(line) ==
    LET l == lstrip(line)
        n == IdentLen(l)
    IN  n > 0 /\ startswith(lstrip(From(l, n)), <<":", "=">>)

\* re.match(r'^\s*select\s*\{', line)
MatchSelect(line) ==
    LET l == lstrip(line)
        kw == <<"s","e","l","e","c","t">>
    IN  startswith(l, kw) /\ startswith(lstrip(From(l, Len(kw))), <<"{">>)

\* re.match(r'^(\t|    )', line)
MatchIndent(line) == startswithAny(line, {<<"\t">>, <<" ", " ", " ", " ">>})

is_code_continuation(line, prev_lines) ==
    LET stripped == strip(line)
    IN  IF stripped = << >> THEN FALSE
        ELSE IF MatchComment(line) THEN TRUE
        ELSE IF stripped = <<"}">> THEN TRUE
        ELSE IF MatchKeyword(line) THEN TRUE
        ELSE IF MatchShortDecl(line) THEN TRUE
        ELSE IF MatchSelect(line) THEN TRUE
        ELSE IF MatchIndent(line) /\ stripped # << >>
                /\ ~startswithAny(stripped, {<<"-">>, <<"*">>, <<">">>}) THEN TRUE
        ELSE FALSE

\* the prefixes is_markdown_text takes for markdown
MarkdownPrefixes ==
    {<<"#">>, <<">">>, <<"|">>, <<"-">>, <<"1", ".">>, <<"2", ".">>, <<"3", ".">>,
     <<"!">>, <<"[">>}

\* the substrings is_markdown_text takes for code
CodeChars ==
    {<<"{", "}">>, <<"(", ")">>, <<":", "=">>, <<"-", ">">>, <<"{", "{">>, <<"}", "}">>}

\* re.match(r'^\d+\.\s+\*\*', stripped)
MatchNumberedBold(stripped) ==
    LET d == CHOOSE n \in 0..Len(stripped) :
                 /\ \A k \in 1..n : isdigit(stripped[k])
                 /\ (n = Len(stripped) \/ ~isdigit(stripped[n + 1]))
        r == From(stripped, d)
    IN  /\ d > 0
        /\ startswith(r, <<".">>)
        /\ LeadingSpace(From(r, 1)) > 0
        /\ startswith(lstrip(From(r, 1)), <<"*", "*">>)

\* a variant of LongSentence that takes 11 words for a short line
LongSentence_OffByOne(stripped) ==
    NumWords(stripped) > 11 /\ ~(\E c \in CodeChars : contains(stripped, c))

\* "len(words) > 10 and not any(c in stripped for c in [...])"
LongSentence(stripped) ==
    NumWords(stripped) > 10 /\ ~(\E c \in CodeChars : contains(stripped, c))

is_markdown_text(line) ==
    LET stripped == strip(line)
    IN  IF stripped = << >> THEN TRUE
        ELSE IF startswithAny(stripped, MarkdownPrefixes) THEN TRUE
        ELSE IF startswithAny(stripped, {<<"*", "*">>, <<"_", "_">>}) THEN TRUE
        ELSE IF MatchNumberedBold(stripped) THEN TRUE
        ELSE IF LongSentence(stripped) THEN TRUE
        ELSE FALSE

(***************************************************************************)
(* fix_fragmented_blocks: the fence scanner.                               *)
(***************************************************************************)
\* Python's None for code_lang; a language tag is never the empty text
None == << >>

\* stripped[3:].strip() of a line whose stripped text starts with the marker
FenceRest(line) == strip(From(strip(line), 3))

\* stripped.startswith('```')
IsFenceLine(line) == startswith(strip(line), FENCE)

\* the first 1-based index >= j of a line with a non-empty strip(), Len(lines) + 1
\* when there is none: the loop "while j < len(lines) and not lines[j].strip()"
RECURSIVE SkipBlank(_, _)
SkipBlank(lines, j) ==
    IF j <= Len(lines) /\ strip(lines[j]) = << >> THEN SkipBlank(lines, j + 1) ELSE j

\* a variant of CollectOrphans that takes only the lines the code-continuation
\* heuristic accepts
RECURSIVE CollectOrphans_Strict(_, _, _)
CollectOrphans_Strict(lines, j, orphan_code) ==
    IF j > Len(lines) THEN [j |-> j, orphan_code |-> orphan_code]
    ELSE LET next_line == lines[j]
             next_stripped == strip(next_line)
         IN  IF startswith(next_stripped, <<"#">>) \/ startswith(next_stripped, FENCE)
             THEN [j |-> j, orphan_code |-> orphan_code]
             ELSE IF is_markdown_text(next_line)
             THEN [j |-> j, orphan_code |-> orphan_code]
             ELSE IF is_code_continuation(next_line, orphan_code)
             THEN CollectOrphans_Strict(lines, j + 1, Append(orphan_code, next_line))
             ELSE [j |-> j, orphan_code |-> orphan_code]

\* the loop "while j < len(lines)" that collects orphan_code from index j on
RECURSIVE CollectOrphans(_, _, _)
CollectOrphans(lines, j, orphan_code) ==
    IF j > Len(lines) THEN [j |-> j, orphan_code |-> orphan_code]
    ELSE LET next_line == lines[j]
             next_stripped == strip(next_line)
         IN  IF startswith(next_stripped, <<"#">>) \/ startswith(next_stripped, FENCE)
             THEN [j |-> j, orphan_code |-> orphan_code]
             ELSE IF is_markdown_text(next_line)
             THEN [j |-> j, orphan_code |-> orphan_code]
             ELSE IF is_code_continuation(next_line, orphan_code)
             THEN CollectOrphans(lines, j + 1, Append(orphan_code, next_line))
             ELSE IF orphan_code # << >> /\ next_stripped # << >>
             THEN CollectOrphans(lines, j + 1, Append(orphan_code, next_line))
             ELSE [j |-> j, orphan_code |-> orphan_code]

\* a variant of Lookahead that looks for orphans only right after the fence
Lookahead_NoGap(lines, i) ==
    LET j == SkipBlank(lines, i + 1)
        blank_count == j - (i + 1)
    IN  IF blank_count <= 0 /\ j <= Len(lines)
        THEN CollectOrphans(lines, j, << >>)
        ELSE [j |-> j, orphan_code |-> << >>]

\* a variant of Lookahead whose index j ends one line too far
Lookahead_Overrun(lines, i) ==
    LET j == SkipBlank(lines, i + 1)
        blank_count == j - (i + 1)
        la == IF blank_count <= 1 /\ j <= Len(lines)
              THEN CollectOrphans(lines, j, << >>)
              ELSE [j |-> j, orphan_code |-> << >>]
    IN  [j |-> la.j + 1, orphan_code |-> la.orphan_code]

\* the lookahead at a closing fence at index i: the blank gap, then the orphans
\* when the gap is of 0 or 1 lines and a line follows it
Lookahead(lines, i) ==
    LET j == SkipBlank(lines, i + 1)
        blank_count == j - (i + 1)
    IN  IF blank_count <= 1 /\ j <= Len(lines)
        THEN CollectOrphans(lines, j, << >>)
        ELSE [j |-> j, orphan_code |-> << >>]

\* which branch of the loop body the line at index i takes
Branch(lines, i, in_code_block) ==
    IF IsFenceLine(lines[i])
    THEN LET rest == FenceRest(lines[i])
         IN  IF rest # << >> /\ isalpha(rest[1]) THEN "open"
             ELSE IF rest = << >> /\ in_code_block
             THEN (IF Lookahead(lines, i).orphan_code # << >> THEN "merge" ELSE "close")
             ELSE "toggle"
    ELSE "plain"

\* a variant of Emit that emits the line without its surrounding whitespace
Emit_Stripped(result, line) == Append(result, strip(line))

\* result.append(line)
Emit(result, line) == Append(result, line)

\* a variant of Merged that does not close the block again
Merged_Unclosed(result, orphan_code) == result \o orphan_code

\* the merge: the orphans appended after the block's content, then a fresh
\* closing fence
Merged(result, orphan_code) == Append(result \o orphan_code, FENCE)

\* one iteration of the main loop on the scan state st = [i, result,
\* in_code_block, code_lang]
ScanStep(lines, st) ==
    LET line == lines[st.i]
        b == Branch(lines, st.i, st.in_code_block)
        la == Lookahead(lines, st.i)
    IN  CASE b = "open" ->
               [i |-> st.i + 1, result |-> Emit(st.result, line),
                in_code_block |-> TRUE, code_lang |-> FirstWord(FenceRest(line))]
          [] b = "merge" ->
               [i |-> la.j, result |-> Merged(st.result, la.orphan_code),
                in_code_block |-> FALSE, code_lang |-> None]
          [] b = "close" ->
               [i |-> st.i + 1, result |-> Emit(st.result, line),
                in_code_block |-> FALSE, code_lang |-> None]
          [] b = "toggle" ->
               [i |-> st.i + 1, result |-> Emit(st.result, line),
                in_code_block |-> ~st.in_code_block,
                code_lang |-> IF st.in_code_block THEN None ELSE st.code_lang]
          [] OTHER ->
               [i |-> st.i + 1, result |-> Emit(st.result, line),
                in_code_block |-> st.in_code_block, code_lang |-> st.code_lang]

\* the scan state before the loop
ScanInit == [i |-> 1, result |-> << >>, in_code_block |-> FALSE, code_lang |-> None]

\* the main loop run to its end
RECURSIVE ScanLoop(_, _)
ScanLoop(lines, st) ==
    IF st.i <= Len(lines) THEN ScanLoop(lines, ScanStep(lines, st)) ELSE st

fix_fragmented_blocks(content) == join(ScanLoop(split(content), ScanInit).result)

(***************************************************************************)
(* Substitution: str.replace and re.sub, both left to right over           *)
(* non-overlapping matches.                                                *)
(***************************************************************************)
\* s.replace(old, new) from offset p on, for a non-empty old
RECURSIVE replaceFrom(_, _, _, _)
replaceFrom(s, old, new, p) ==
    IF p >= Len(s) THEN << >>
    ELSE IF At(s, p, old) THEN new \o replaceFrom(s, old, new, p + Len(old))
    ELSE <<s[p + 1]>> \o replaceFrom(s, old, new, p + 1)

replace(s, old, new) == replaceFrom(s, old, new, 0)

\* the lookbehind (?<!\\) at offset p: the character before p is no backslash
NotEscaped(s, p) == p = 0 \/ s[p] # "\\"

\* the character classes of the patterns: \d, \s and [^{}]
InClass(cls, c) ==
    CASE cls = "digit" -> isdigit(c)
      [] cls = "space" -> isspace(c)
      [] cls = "notbrace" -> c \notin {"{", "}"}

\* the number of characters of the class from offset p on: the greedy cls*
RECURSIVE Run(_, _, _)
Run(cls, s, p) == IF p < Len(s) /\ InClass(cls, s[p + 1]) THEN 1 + Run(cls, s, p + 1) ELSE 0

(***************************************************************************)
(* The patterns of decode_html_entities.                                   *)
(***************************************************************************)
\* HTML_ENTITIES, in the order of the dict
HTML_ENTITIES ==
    << <<<<"&","#","9","1",";">>, <<"[">>>>,
       <<<<"&","#","9","3",";">>, <<"]">>>>,
       <<<<"&","#","1","2","3",";">>, <<"{">>>>,
       <<<<"&","#","1","2","5",";">>, <<"}">>>>,
       <<<<"&","l","t",";">>, <<"<">>>>,
       <<<<"&","g","t",";">>, <<">">>>>,
       <<<<"&","a","m","p",";">>, <<"&">>>>,
       <<<<"&","q","u","o","t",";">>, <<"\"">>>>,
       <<<<"&","#","3","9",";">>, <<"'">>>> >>

\* the loop "for entity, char in HTML_ENTITIES.items()" from entry k on
RECURSIVE ReplaceEntities(_, _)
ReplaceEntities(content, k) ==
    IF k > Len(HTML_ENTITIES) THEN content
    ELSE ReplaceEntities(replace(content, HTML_ENTITIES[k][1], HTML_ENTITIES[k][2]), k + 1)

\* the printable ASCII characters, code points 32 to 126 in order
Ascii ==
    <<" ", "!", "\"", "#", "$", "%", "&", "'", "(", ")", "*", "+", ",", "-", ".", "/",
      "0", "1", "2", "3", "4", "5", "6", "7", "8", "9", ":", ";", "<", "=", ">", "?",
      "@", "A", "B", "C", "D", "E", "F", "G", "H", "I", "J", "K", "L", "M", "N", "O",
      "P", "Q", "R", "S", "T", "U", "V", "W", "X", "Y", "Z", "[", "\\", "]", "^", "_",
      BQ, "a", "b", "c", "d", "e", "f", "g", "h", "i", "j", "k", "l", "m", "n", "o",
      "p", "q", "r", "s", "t", "u", "v", "w", "x", "y", "z", "{", "|", "}", "~">>

\* what stands for "chr() raised ValueError" in place of a character
ValueError == "ValueError"

\* chr(n): the character of code point n; a code point outside ASCII is the
\* character named by its number; chr raises ValueError from 0x110000 on
chr(n) ==
    IF n >= 1114112 THEN ValueError
    ELSE IF n >= 32 /\ n <= 126 THEN Ascii[n - 31]
    ELSE IF n = 10 THEN "\n"
    ELSE IF n = 9 THEN "\t"
    ELSE "U+" \o ToString(n)

\* int(ds) of a text of decimal digits
RECURSIVE int(_)
int(ds) ==
    IF ds = << >> THEN 0
    ELSE 10 * int(SubSeq(ds, 1, Len(ds) - 1))
         + (CHOOSE d \in 0..9 : Ascii[17 + d] = ds[Len(ds)])

\* the match of r'&#(\d+);' at offset p
MatchNumeric(s, p) ==
    LET d == Run("digit", s, p + 2)
    IN  IF At(s, p, <<"&", "#">>) /\ d > 0 /\ At(s, p + 2 + d, <<";">>) THEN d + 3 ELSE 0

\* lambda m: chr(int(m.group(1)))
ReplNumeric(s, p, n) == <<chr(int(SubSeq(s, p + 3, p + n - 1)))>>

(***************************************************************************)
(* The pattern of remove_empty_code_blocks.                                *)
(***************************************************************************)
\* the match of r'```\n(\s*\n)*```' at offset p: the marker and a newline, a run
\* of whitespace that is empty or ends in a newline, the marker
MatchEmptyBlock(s, p) ==
    LET w == Run("space", s, p + 4)
    IN  IF /\ At(s, p, FENCE \o <<"\n">>)
           /\ (w = 0 \/ s[p + 4 + w] = "\n")
           /\ At(s, p + 4 + w, FENCE)
        THEN 4 + w + 3 ELSE 0

(***************************************************************************)
(* The patterns of escape_jsx_patterns.                                    *)
(***************************************************************************)
BS == "\\"

\* r'(?<!\\)<(\d)' -> r'\\<\1'
MatchLtDigit(s, p) ==
    IF NotEscaped(s, p) /\ At(s, p, <<"<">>) /\ p + 1 < Len(s) /\ isdigit(s[p + 2])
    THEN 2 ELSE 0

\* r'(?<!\\)<-chan' -> r'\\<-chan'
MatchChan(s, p) ==
    IF NotEscaped(s, p) /\ At(s, p, <<"<", "-", "c", "h", "a", "n">>) THEN 6 ELSE 0

\* r'(?<!\\)<-(?![a-zA-Z])' -> r'\\<-'
MatchReceive(s, p) ==
    IF /\ NotEscaped(s, p) /\ At(s, p, <<"<", "-">>)
       /\ ~(p + 2 < Len(s) /\ isalpha(s[p + 3]))
    THEN 2 ELSE 0

\* the replacement of a match by a backslash and the match
ReplEscaped(s, p, n) == <<BS>> \o SubSeq(s, p + 1, p + n)

\* r'(?<!\\)\{\}' -> r'\\{\\}'
MatchEmptyBraces(s, p) == IF NotEscaped(s, p) /\ At(s, p, <<"{", "}">>) THEN 2 ELSE 0

\* r'(?<!\\)\{([^{}]+)\}' -> r'\\{\1\\}'
MatchBraced(s, p) ==
    LET w == Run("notbrace", s, p + 1)
    IN  IF /\ NotEscaped(s, p) /\ At(s, p, <<"{">>) /\ w > 0
           /\ At(s, p + 1 + w, <<"}">>)
        THEN w + 2 ELSE 0

ReplBraced(s, p, n) == <<BS, "{">> \o SubSeq(s, p + 2, p + n - 1) \o <<BS, "}">>

\* r'(?<!\\)\{\{-?' -> r'\\{\\{'
MatchHelmOpen(s, p) ==
    IF NotEscaped(s, p) /\ At(s, p, <<"{", "{">>)
    THEN (IF At(s, p + 2, <<"-">>) THEN 3 ELSE 2) ELSE 0

\* r'-?(?<!\\)\}\}' -> r'\\}\\}'
MatchHelmClose(s, p) ==
    IF At(s, p, <<"-", "}", "}">>) THEN 3
    ELSE IF NotEscaped(s, p) /\ At(s, p, <<"}", "}">>) THEN 2
    ELSE 0

(***************************************************************************)
(* re.sub over the patterns above.                                         *)
(***************************************************************************)
\* the length of the match of pattern pat at offset p of s, 0 when it does not
\* match there (no pattern matches the empty text)
Match(pat, s, p) ==
    CASE pat = "numeric" -> MatchNumeric(s, p)
      [] pat = "emptyblock" -> MatchEmptyBlock(s, p)
      [] pat = "ltdigit" -> MatchLtDigit(s, p)
      [] pat = "chan" -> MatchChan(s, p)
      [] pat = "receive" -> MatchReceive(s, p)
      [] pat = "emptybraces" -> MatchEmptyBraces(s, p)
      [] pat = "braced" -> MatchBraced(s, p)
      [] pat = "helmopen" -> MatchHelmOpen(s, p)
      [] pat = "helmclose" -> MatchHelmClose(s, p)

\* the replacement of the match of pat of length n at offset p of s
Repl(pat, s, p, n) ==
    CASE pat = "numeric" -> ReplNumeric(s, p, n)
      [] pat = "emptyblock" -> << >>
      [] pat \in {"ltdigit", "chan", "receive"} -> ReplEscaped(s, p, n)
      [] pat = "emptybraces" -> <<BS, "{", BS, "}">>
      [] pat = "braced" -> ReplBraced(s, p, n)
      [] pat = "helmopen" -> <<BS, "{", BS, "{">>
      [] pat = "helmclose" -> <<BS, "}", BS, "}">>

\* re.sub(pat, repl, s) from offset p on
RECURSIVE resubFrom(_, _, _)
resubFrom(pat, s, p) ==
    IF p >= Len(s) THEN << >>
    ELSE LET n == Match(pat, s, p)
         IN  IF n > 0 THEN Repl(pat, s, p, n) \o resubFrom(pat, s, p + n)
             ELSE <<s[p + 1]>> \o resubFrom(pat, s, p + 1)

resub(pat, s) == resubFrom(pat, s, 0)

(***************************************************************************)
(* decode_html_entities, split_frontmatter, remove_empty_code_blocks       *)
(***************************************************************************)
\* decode_html_entities: raised tells that chr raised (and then no text is
\* returned), text is the text returned otherwise
decode_html_entities(content) ==
    LET t == resub("numeric", ReplaceEntities(content, 1))
    IN  [raised |-> \E k \in 1..Len(t) : t[k] = ValueError, text |-> t]

split_frontmatter(content) ==
    IF ~startswith(content, <<"-", "-", "-">>)
    THEN [frontmatter |-> << >>, body |-> content]
    ELSE LET rest == From(content, 3)
             end_idx == find(rest, <<"\n", "-", "-", "-">>)
         IN  IF end_idx = -1
             THEN [frontmatter |-> << >>, body |-> content]
             ELSE [frontmatter |-> Upto(content, 3 + end_idx + 4),
                   body |-> From(content, 3 + end_idx + 4)]

remove_empty_code_blocks(content) ==
    replace(resub("emptyblock", content), FENCE \o <<"\n">> \o FENCE, << >>)

(***************************************************************************)
(* escape_jsx_patterns                                                     *)
(***************************************************************************)
\* the rewriting of one line outside code blocks
EscapeLine(line) ==
    LET l1 == replace(line, <<BS, BS, "{">>, <<BS, "{">>)
        l2 == replace(l1, <<BS, BS, "}">>, <<BS, "}">>)
        l3 == replace(l2, <<BS, BS, "<">>, <<BS, "<">>)
        l4 == resub("ltdigit", l3)
        l5 == resub("chan", l4)
        l6 == resub("receive", l5)
        l7 == IF ~contains(l6, <<BQ>>) THEN resub("emptybraces", l6) ELSE l6
        l8 == IF contains(l7, <<"-", "-", ">">>) THEN resub("braced", l7) ELSE l7
        l9 == IF ~contains(l8, <<BQ>>)
              THEN resub("helmclose", resub("helmopen", l8))
              ELSE l8
    IN  l9

\* in_code_block of escape_jsx_patterns after the line, from its value before it
EscapeTrack(line, in_code_block) ==
    IF IsFenceLine(line)
    THEN LET rest == FenceRest(line)
         IN  IF rest # << >> /\ isalpha(rest[1]) THEN TRUE
             ELSE IF rest = << >> THEN ~in_code_block
             ELSE in_code_block
    ELSE in_code_block

\* the loop "for line in lines" from index k on: result is the lines emitted,
\* trace the value of in_code_block after each line
RECURSIVE EscapeLoop(_, _, _)
EscapeLoop(lines, k, in_code_block) ==
    IF k > Len(lines) THEN [result |-> << >>, trace |-> << >>]
    ELSE LET line == lines[k]
             after == EscapeTrack(line, in_code_block)
             out == IF IsFenceLine(line) \/ in_code_block THEN line ELSE EscapeLine(line)
             r == EscapeLoop(lines, k + 1, after)
         IN  [result |-> <<out>> \o r.result, trace |-> <<after>> \o r.trace]

escape_jsx_patterns(content) == join(EscapeLoop(split(content), 1, FALSE).result)

(***************************************************************************)
(* The inputs: document bodies built from lines of each kind the scanner   *)
(* tells apart.                                                            *)
(***************************************************************************)
\* the longest body of core lines
MaxLines == 4

\* the most blank lines between the closing fence of a fragment scenario and
\* the line that follows
MaxGap == 2

\* the most lines after that line
MaxTail == 2

\* n words "a" separated by single spaces
RECURSIVE Words(_)
Words(n) == IF n <= 1 THEN <<"a">> ELSE <<"a", " ">> \o Words(n - 1)

Indent == <<" ", " ", " ", " ">>

TagFence == FENCE \o <<"g", "o">>
BareFence == FENCE
OddFence == FENCE \o <<"1">>
IndentedFence == <<" ", " ">> \o FENCE
Blank == << >>
Brace == <<"}">>
Plain == <<"x">>
Heading == <<"#", " ", "h">>
ListItem == <<"-", " ", "a">>
Prose == Words(11)
IndentedProse == Indent \o Words(11)
ReturnProse == <<"r","e","t","u","r","n"," ">> \o Words(11)
CommentProse == <<"/", "/", " ">> \o Words(11)
ShortProse == Words(10)
CodeProse == Words(11) \o <<" ", "(", ")">>
IndentedCode == Indent \o <<"a">>
ShortDecl == <<"x", " ", ":", "=", " ", "1">>
FuncLine == <<"f","u","n","c"," ","f","(",")"," ","{">>

\* the lines of the exhaustively enumerated bodies
CoreLines == {TagFence, BareFence, OddFence, Blank, Brace, Plain}

\* the lines that may follow the closing fence and the gap of a fragment scenario
TailLines ==
    {TagFence, BareFence, OddFence, IndentedFence, Blank, Brace, Plain, Heading,
     ListItem, Prose, IndentedProse, ReturnProse, CommentProse, ShortProse,
     CodeProse, IndentedCode, ShortDecl}

\* the sequences over S of a length from lo to hi
SeqsOf(S, lo, hi) == UNION {[1..n -> S] : n \in lo..hi}

\* a fragment scenario: a block that is opened and closed, a gap of blank
\* lines, a line of any kind, and core lines after it
Fragments ==
    {<<TagFence, FuncLine, BareFence>> \o [k \in 1..g |-> Blank] \o <<l>> \o t :
        g \in 0..MaxGap, l \in TailLines, t \in SeqsOf(CoreLines, 0, MaxTail)}

\* an orphan run scenario: a block that is opened and closed, an orphan brace
\* right after it, and two lines of any kind
RunFragments ==
    {<<TagFence, FuncLine, BareFence, Brace, l1, l2>> : l1 \in TailLines, l2 \in TailLines}

\* the bodies: every body of 1 to MaxLines core lines, every fragment scenario
\* and every orphan run scenario
Bodies == SeqsOf(CoreLines, 1, MaxLines) \cup Fragments \cup RunFragments

(***************************************************************************)
(* The scanner as a state machine: one action per branch of the loop body  *)
(* of fix_fragmented_blocks, then the return, a second run of the scanner  *)
(* on the text returned, and a run of escape_jsx_patterns on the input.    *)
(***************************************************************************)
VARIABLES
    content,        \* the argument of fix_fragmented_blocks
    lines,          \* content.split('\n')
    i,              \* the index of the main loop (from 1)
    result,         \* the lines emitted so far
    in_code_block,
    code_lang,
    pc,             \* where the program is
    ret,            \* the text returned
    ret2,           \* the text returned by the scanner run on ret
    esc,            \* the run of escape_jsx_patterns over lines
    trace,          \* history: per iteration, the index visited and in_code_block after it
    merges,         \* history: per merge, the index of the closing fence, j and orphan_code
    disk,           \* fix_markdown_file: the text of the file at filepath
    original,       \* fix_markdown_file: the text read
    frontmatter,
    body,
    prev,           \* history: body before the last pass
    docs,           \* fix-doc-links: the files under DOCS_DIR, by path
    md_files,       \* sorted(md_files)
    md_file,        \* the position of the loop of main in md_files (from 1)
    local_changes,
    changes_made,
    files_modified,
    stdout,         \* what has been printed
    returns         \* history: what the calls of fix_file returned

scanVars == <<content, lines, i, result, in_code_block, code_lang, ret, ret2, esc,
              trace, merges>>

fileVars == <<disk, original, frontmatter, body, prev>>

linkVars == <<docs, md_files, md_file, local_changes, changes_made, files_modified,
              stdout, returns>>

vars == <<scanVars, pc, fileVars, linkVars>>

\* the link variables when fix-doc-links.py does not run
NoLinks ==
    /\ docs = << >> /\ md_files = << >> /\ md_file = 0 /\ local_changes = 0
    /\ changes_made = 0 /\ files_modified = {} /\ stdout = << >> /\ returns = << >>

NoEsc == [result |-> << >>, trace |-> << >>]

Init ==
    /\ content \in {join(b) : b \in Bodies}
    /\ lines = split(content)
    /\ i = ScanInit.i
    /\ result = ScanInit.result
    /\ in_code_block = ScanInit.in_code_block
    /\ code_lang = ScanInit.code_lang
    /\ pc = "loop"
    /\ ret = << >>
    /\ ret2 = << >>
    /\ esc = NoEsc
    /\ trace = << >>
    /\ merges = << >>
    /\ disk = << >> /\ original = << >> /\ frontmatter = << >>
    /\ body = << >> /\ prev = << >>
    /\ NoLinks

ScanState ==
    [i |-> i, result |-> result, in_code_block |-> in_code_block, code_lang |-> code_lang]

\* one iteration of the main loop that takes branch b
Iterate(b) ==
    /\ Branch(lines, i, in_code_block) = b
    /\ LET st == ScanStep(lines, ScanState)
       IN  /\ i' = st.i
           /\ result' = st.result
           /\ in_code_block' = st.in_code_block
           /\ code_lang' = st.code_lang
           /\ trace' = Append(trace, [at |-> i, in_code_block |-> st.in_code_block])
    /\ merges' = IF b = "merge"
                 THEN Append(merges, [at |-> i, j |-> Lookahead(lines, i).j,
                                      orphan_code |-> Lookahead(lines, i).orphan_code])
                 ELSE merges
    /\ UNCHANGED <<content, lines, pc, ret, ret2, esc, fileVars, linkVars>>

\* "if rest and rest[0].isalpha()": an opening fence with a language
OpenFence ==
    /\ pc = "loop" /\ i <= Len(lines)
    /\ Iterate("open")

\* "elif rest == '' and in_code_block", with orphan_code found
MergeOrphans ==
    /\ pc = "loop" /\ i <= Len(lines)
    /\ Iterate("merge")

\* "elif rest == '' and in_code_block", with no orphan_code
CloseFence ==
    /\ pc = "loop" /\ i <= Len(lines)
    /\ Iterate("close")

\* "else": a fence that toggles in_code_block
ToggleFence ==
    /\ pc = "loop" /\ i <= Len(lines)
    /\ Iterate("toggle")

\* a line that is no fence
PlainLine ==
    /\ pc = "loop" /\ i <= Len(lines)
    /\ Iterate("plain")

\* return '\n'.join(result)
Return ==
    /\ pc = "loop"
    /\ i > Len(lines)
    /\ ret' = join(result)
    /\ pc' = "returned"
    /\ UNCHANGED <<content, lines, i, result, in_code_block, code_lang, ret2, esc,
                   trace, merges, fileVars, linkVars>>

\* fix_fragmented_blocks applied to its own output
Rescan ==
    /\ pc = "returned"
    /\ ret2' = fix_fragmented_blocks(ret)
    /\ pc' = "rescanned"
    /\ UNCHANGED <<content, lines, i, result, in_code_block, code_lang, ret, esc,
                   trace, merges, fileVars, linkVars>>

\* escape_jsx_patterns applied to the same lines
Escape ==
    /\ pc = "rescanned"
    /\ esc' = EscapeLoop(lines, 1, FALSE)
    /\ pc' = "escaped"
    /\ UNCHANGED <<content, lines, i, result, in_code_block, code_lang, ret, ret2,
                   trace, merges, fileVars, linkVars>>

Next ==
    \/ OpenFence
    \/ MergeOrphans
    \/ CloseFence
    \/ ToggleFence
    \/ PlainLine
    \/ Return
    \/ Rescan
    \/ Escape

Spec == Init /\ [][Next]_vars

\* a step of fix_fragmented_blocks seen from outside: in the loop, i moves or
\* the function returns.  Every iteration and the return are such steps, and
\* in the loop one of them can always be taken.
Advance ==
    /\ pc = "loop"
    /\ pc' \in {"loop", "returned"}
    /\ i' \in i..(Len(lines) + 1)

\* the scanner runs on: its next step is not put off for ever
FairSpec == Spec /\ WF_<<pc, i>>(Advance)

(***************************************************************************)
(* fix_markdown_file as a state machine: the file is read, split, and its  *)
(* body goes through the four passes; the file is written when the text    *)
(* has changed.  An exception of a pass propagates and ends the run.       *)
(***************************************************************************)
\* the most lines of a file
MaxFileLines == 4

Dashes == <<"-", "-", "-">>
LongDashes == <<"-", "-", "-", "-">>
KeyAmp == <<"k", ":", " ", "&", "a", "m", "p", ";">>
EntityLine ==
    <<"&","#","9","1",";","a","&","#","1","2","3",";","b","&","#","1","2","5",";","c",
      "&","#","9","3",";">>
BigEntity == <<"&","#","1","1","1","4","1","1","2",";">>

\* the lines of the files
FileLines ==
    {Dashes, LongDashes, KeyAmp, EntityLine, BigEntity, TagFence, BareFence, Blank,
     Plain}

\* the files: every text of 1 to MaxFileLines lines
Files == {join(f) : f \in SeqsOf(FileLines, 1, MaxFileLines)}

FileInit ==
    /\ disk \in Files
    /\ pc = "open"
    /\ original = << >> /\ frontmatter = << >> /\ body = << >> /\ prev = << >>
    /\ content = << >> /\ lines = << >> /\ i = 0 /\ result = << >>
    /\ in_code_block = FALSE /\ code_lang = None
    /\ ret = << >> /\ ret2 = << >> /\ esc = NoEsc /\ trace = << >> /\ merges = << >>
    /\ NoLinks

\* content = f.read(); original = content
ReadFile ==
    /\ pc = "open"
    /\ original' = disk
    /\ pc' = "read"
    /\ UNCHANGED <<scanVars, linkVars, disk, frontmatter, body, prev>>

\* frontmatter, body = split_frontmatter(content)
SplitFrontmatter ==
    /\ pc = "read"
    /\ frontmatter' = split_frontmatter(original).frontmatter
    /\ body' = split_frontmatter(original).body
    /\ prev' = original
    /\ pc' = "split"
    /\ UNCHANGED <<scanVars, linkVars, disk, original>>

\* body = decode_html_entities(body)
DecodeEntities ==
    /\ pc = "split"
    /\ ~decode_html_entities(body).raised
    /\ body' = decode_html_entities(body).text
    /\ prev' = body
    /\ pc' = "decoded"
    /\ UNCHANGED <<scanVars, linkVars, disk, original, frontmatter>>

\* decode_html_entities raises: the exception leaves fix_markdown_file
DecodeRaises ==
    /\ pc = "split"
    /\ decode_html_entities(body).raised
    /\ pc' = "raised"
    /\ UNCHANGED <<scanVars, fileVars, linkVars>>

\* body = fix_fragmented_blocks(body)
FixBlocks ==
    /\ pc = "decoded"
    /\ body' = fix_fragmented_blocks(body)
    /\ prev' = body
    /\ pc' = "scanned"
    /\ UNCHANGED <<scanVars, linkVars, disk, original, frontmatter>>

\* body = remove_empty_code_blocks(body)
RemoveEmpty ==
    /\ pc = "scanned"
    /\ body' = remove_empty_code_blocks(body)
    /\ prev' = body
    /\ pc' = "stripped"
    /\ UNCHANGED <<scanVars, linkVars, disk, original, frontmatter>>

\* body = escape_jsx_patterns(body)
EscapeJsx ==
    /\ pc = "stripped"
    /\ body' = escape_jsx_patterns(body)
    /\ prev' = body
    /\ pc' = "escaped"
    /\ UNCHANGED <<scanVars, linkVars, disk, original, frontmatter>>

\* content = frontmatter + body, written back when it differs from original
WriteBack ==
    /\ pc = "escaped"
    /\ frontmatter \o body # original
    /\ disk' = frontmatter \o body
    /\ pc' = "fixed"
    /\ UNCHANGED <<scanVars, linkVars, original, frontmatter, body, prev>>

\* content == original: return False
NoChange ==
    /\ pc = "escaped"
    /\ frontmatter \o body = original
    /\ pc' = "unchanged"
    /\ UNCHANGED <<scanVars, fileVars, linkVars>>

FileNext ==
    \/ ReadFile
    \/ SplitFrontmatter
    \/ DecodeEntities
    \/ DecodeRaises
    \/ FixBlocks
    \/ RemoveEmpty
    \/ EscapeJsx
    \/ WriteBack
    \/ NoChange

FileSpec == FileInit /\ [][FileNext]_vars

(***************************************************************************)
(* scripts/fix-doc-links.py: the rules of fix_file.                        *)
(***************************************************************************)
\* the characters of a string
Chars(str) == [k \in 1..Len(str) |-> SubSeq(str, k, k)]

\* s.endswith(p)
endswith(s, p) == Len(s) >= Len(p) /\ SubSeq(s, Len(s) - Len(p) + 1, Len(s)) = p

\* p in s, for a p that is not empty
occurs(s, p) ==
    \E k \in 0..(Len(s) - Len(p)) : s[k + 1] = p[1] /\ SubSeq(s, k + 1, k + Len(p)) = p

\* the offset of the first character c at or after offset p of s, Len(s) or
\* more when there is none: where a run of [^c] that starts at p ends
Until(s, p, c) ==
    LET at == {k \in p..(Len(s) - 1) : s[k + 1] = c}
    IN  IF at = {} THEN (IF p >= Len(s) THEN p ELSE Len(s))
        ELSE CHOOSE k \in at : \A h \in at : k <= h

\* "if old in content: content = content.replace(old, new)", under the
\* condition named by when and unless the text holds unless
Replace(old, new, when, unless) ==
    [kind |-> "replace", old |-> Chars(old), new |-> Chars(new), when |-> when,
     unless |-> Chars(unless)]

\* "if re.search(pattern, content): content = re.sub(pattern, repl, content)" for
\* the patterns over a link, which all have the form
\*     \[([^\]]+)     when text, nothing otherwise
\*     \]\(
\*     [^)]*          when pre is "any", nothing when it is "exact"
\*     lit
\*     \)             when post is "none"
\*     ([^)]+)\)      when post is "plus"
\*     ([^)]*)\)      when post is "star"
\*     [^)]*\)        when post is "any"
\*     ([^)]+)/\)     when post is "dir"
\* and the replacements, which are
\*     \1             when out is "text": the link text alone
\*     ](to)          when out is "target", after [\1 when text
\*     ](to\1)        when out is "group"
Link(text, pre, lit, post, out, to, when) ==
    [kind |-> "link", text |-> text, pre |-> pre, lit |-> Chars(lit), post |-> post,
     out |-> out, to |-> Chars(to), when |-> when]

\* the rules of fix_file, in the order of the source
Rules ==
    << Replace("/api/packages/", "/api-docs/packages/", "always", ""),
       Replace("use-cases/batch-processing.md", "use-cases/11-batch-processing.md",
               "always", ""),
       Link(FALSE, "exact", "/pkg/", "plus", "group",
            "https://github.com/lookatitude/beluga-ai/blob/main/pkg/", "always"),
       Link(FALSE, "exact", "/examples/", "plus", "group",
            "https://github.com/lookatitude/beluga-ai/blob/main/examples/", "always"),
       Link(FALSE, "exact", "/specs/", "plus", "group",
            "https://github.com/lookatitude/beluga-ai/blob/main/specs/", "always"),
       Link(TRUE, "any", "guides/config-providers.md", "any", "target",
            "../guides/implementing-providers.md", "always"),
       Link(TRUE, "exact", "./event-driven-agents.md", "none", "target",
            "./09-multi-model-llm-gateway.md", "always"),
       Link(TRUE, "exact", "./distributed-orchestration.md", "none", "target",
            "./07-distributed-workflow-orchestration.md", "always"),
       Link(TRUE, "exact", "./README.md", "none", "text", "", "always"),
       Link(TRUE, "exact", "../guides/configuration.md", "none", "target",
            "../guides/implementing-providers.md", "always"),
       Link(FALSE, "any", "api-docs/packages/voice/s2s.md", "any", "target",
            "../../api-docs/packages/voice/session.md", "always"),
       Link(TRUE, "any", "api-docs/packages/messaging.md", "any", "text", "", "always"),
       Link(TRUE, "any", "api-docs/packages/documentloaders.md", "any", "text", "",
            "always"),
       Link(TRUE, "any", "api-docs/packages/safety.md", "any", "text", "", "always"),
       Link(TRUE, "any", "api-docs/packages/multimodal.md", "any", "text", "", "always"),
       Link(TRUE, "any", "api-docs/packages/textsplitters.md", "any", "text", "",
            "always"),
       Link(FALSE, "exact", "../getting-started/tutorials/working-with-tools.md", "none",
            "target", "../getting-started/04-working-with-tools.md", "always"),
       Link(TRUE, "exact", "/docs/providers/embeddings/selection.md", "none", "target",
            "../guides/rag-multimodal.md", "always"),
       Link(FALSE, "exact", "../../../tutorials/", "plus", "group", "../../tutorials/",
            "always"),
       Link(FALSE, "exact", "../../../api-docs/packages/server.md", "none", "target",
            "../../api-docs/packages/server.md", "always"),
       Replace("../../api-docs", "../../../api-docs", "integrations", "../../../api-docs"),
       Link(FALSE, "exact", "../README.md", "none", "target",
            "https://github.com/lookatitude/beluga-ai/blob/main/README.md", "always"),
       Link(FALSE, "exact", "../CONTRIBUTING.md", "none", "target",
            "https://github.com/lookatitude/beluga-ai/blob/main/CONTRIBUTING.md", "always"),
       Link(FALSE, "exact", "../CHANGELOG.md", "none", "target",
            "https://github.com/lookatitude/beluga-ai/blob/main/CHANGELOG.md", "always"),
       Link(FALSE, "exact", "../../README.md", "none", "target",
            "https://github.com/lookatitude/beluga-ai/blob/main/README.md", "always"),
       Link(FALSE, "exact", "../../CONTRIBUTING.md", "none", "target",
            "https://github.com/lookatitude/beluga-ai/blob/main/CONTRIBUTING.md", "always"),
       Link(FALSE, "exact", "../../CHANGELOG.md", "none", "target",
            "https://github.com/lookatitude/beluga-ai/blob/main/CHANGELOG.md", "always"),
       Link(FALSE, "exact", "../examples/", "star", "group",
            "https://github.com/lookatitude/beluga-ai/tree/main/examples/", "always"),
       Link(FALSE, "exact", "../../examples/", "star", "group",
            "https://github.com/lookatitude/beluga-ai/tree/main/examples/", "always"),
       Link(FALSE, "exact", "../../pkg/", "star", "group",
            "https://github.com/lookatitude/beluga-ai/tree/main/pkg/", "always"),
       Link(FALSE, "exact", "../../../pkg/", "star", "group",
            "https://github.com/lookatitude/beluga-ai/tree/main/pkg/", "always"),
       Link(FALSE, "any", "website/docs/api/", "any", "target", "./api-reference.md",
            "always"),
       Link(FALSE, "exact", "./patterns/", "none", "target", "./patterns/README.md",
            "always"),
       Link(FALSE, "exact", "./guides/", "none", "target", "./guides/llm-providers.md",
            "always"),
       Link(FALSE, "exact", "./providers/", "dir", "group",
            "https://github.com/lookatitude/beluga-ai/tree/main/pkg/", "always"),
       Link(TRUE, "exact", "./TEST_ISSUES_SUMMARY.md", "none", "text", "", "always"),
       Link(FALSE, "exact", "../../integrations/", "plus", "group", "../integrations/",
            "always"),
       Link(FALSE, "exact", "../voice-providers.md", "none", "target",
            "../../guides/voice-providers.md", "always"),
       Link(FALSE, "any", "use-cases/voice-sessions.md", "none", "target",
            "../../use-cases/voice-session-multi-turn-forms.md", "examples"),
       Link(FALSE, "exact", "../../../examples/", "star", "group",
            "https://github.com/lookatitude/beluga-ai/tree/main/examples/", "always") >>

NoMatch == [n |-> 0, text |-> << >>, group |-> << >>]

\* the match of the link pattern r at offset p of s: its length n (0 when the
\* pattern does not match there), the link text and the group of the target
MatchLink(r, s, p) ==
    LET t == IF r.text THEN Until(s, p + 1, "]") - (p + 1) ELSE 0
        b == IF r.text THEN p + 1 + t ELSE p
        q == b + 2
        e == Until(s, q, ")")
        seg == SubSeq(s, q + 1, e)
        rest == From(seg, Len(r.lit))
        ok == /\ p < Len(s)
              /\ r.text => (s[p + 1] = "[" /\ t >= 1)
              /\ At(s, b, <<"]", "(">>)
              /\ e < Len(s)
              /\ CASE r.pre = "any" /\ r.post = "any" -> occurs(seg, r.lit)
                   [] r.pre = "any" /\ r.post = "none" -> endswith(seg, r.lit)
                   [] r.pre = "exact" /\ r.post = "none" -> seg = r.lit
                   [] r.pre = "exact" /\ r.post = "plus" ->
                          startswith(seg, r.lit) /\ Len(rest) >= 1
                   [] r.pre = "exact" /\ r.post = "star" -> startswith(seg, r.lit)
                   [] r.pre = "exact" /\ r.post = "dir" ->
                          startswith(seg, r.lit) /\ Len(rest) >= 2 /\ rest[Len(rest)] = "/"
    IN  IF ok
        THEN [n |-> e + 1 - p,
              text |-> SubSeq(s, p + 2, p + 1 + t),
              group |-> IF r.post = "dir" THEN Upto(rest, Len(rest) - 1) ELSE rest]
        ELSE NoMatch

\* re.search(pattern, s)
search(r, s) == \E p \in 0..(Len(s) - 1) : MatchLink(r, s, p).n > 0

\* s.replace(old, new) from offset p on, one occurrence of old after the other
RECURSIVE replaceEach(_, _, _, _)
replaceEach(s, old, new, p) ==
    LET at == {k \in p..(Len(s) - Len(old)) : s[k + 1] = old[1] /\ At(s, k, old)}
    IN  IF at = {} THEN From(s, p)
        ELSE LET k == CHOOSE k \in at : \A h \in at : k <= h
             IN  SubSeq(s, p + 1, k) \o new \o replaceEach(s, old, new, k + Len(old))

\* the replacement of the match m of the link pattern r
ReplLink(r, m) ==
    CASE r.out = "text" -> m.text
      [] r.out = "target" ->
             (IF r.text THEN <<"[">> \o m.text ELSE << >>) \o <<"]", "(">> \o r.to \o <<")">>
      [] r.out = "group" -> <<"]", "(">> \o r.to \o m.group \o <<")">>

\* the offsets from p on where the link pattern r matches
MatchesFrom(r, s, p) == {k \in p..(Len(s) - 1) : MatchLink(r, s, k).n > 0}

\* re.sub(pattern, repl, s) from offset p on: the leftmost match is replaced
\* and the substitution goes on after it
RECURSIVE subFrom(_, _, _)
subFrom(r, s, p) ==
    LET at == MatchesFrom(r, s, p)
    IN  IF at = {} THEN From(s, p)
        ELSE LET k == CHOOSE k \in at : \A h \in at : k <= h
                 m == MatchLink(r, s, k)
             IN  SubSeq(s, p + 1, k) \o ReplLink(r, m) \o subFrom(r, s, k + m.n)

\* depth = len(rel_path.parts) - 1
depth(rel_path) == Cardinality({k \in 1..Len(rel_path) : rel_path[k] = "/"})

\* the condition on the file a rule stands under: rule 16 is for the files of
\* depth 3 under integrations, rule 30 for the files under examples whose text
\* holds voice-sessions.md
Applies(r, rel_path, s) ==
    CASE r.when = "always" -> TRUE
      [] r.when = "integrations" ->
             /\ depth(rel_path) >= 2 /\ occurs(rel_path, Chars("integrations"))
             /\ depth(rel_path) = 3
      [] r.when = "examples" ->
             /\ occurs(rel_path, Chars("examples"))
             /\ occurs(s, Chars("voice-sessions.md"))

\* the rule r fires on the text s of the file at rel_path
Fires(r, rel_path, s) ==
    /\ Applies(r, rel_path, s)
    /\ IF r.kind = "replace"
       THEN occurs(s, r.old) /\ (r.unless = << >> \/ ~occurs(s, r.unless))
       ELSE occurs(s, r.lit) /\ search(r, s)

\* the rules from the k-th on, applied to st = [content, local_changes] one
\* after the other: "if <the rule fires>: content = <the substitution>;
\* local_changes += 1"
RECURSIVE ApplyRules(_, _, _)
ApplyRules(k, rel_path, st) ==
    IF k > Len(Rules) THEN st
    ELSE LET r == Rules[k]
         IN  IF Fires(r, rel_path, st.content)
             THEN ApplyRules(k + 1, rel_path,
                      [content |-> IF r.kind = "replace"
                                   THEN replaceEach(st.content, r.old, r.new, 0)
                                   ELSE subFrom(r, st.content, 0),
                       local_changes |-> st.local_changes + 1])
             ELSE ApplyRules(k + 1, rel_path, st)

(***************************************************************************)
(* main of fix-doc-links.py as a state machine: the files found are sorted *)
(* and fix_file runs on each: it reads the file, applies the rules, and    *)
(* writes the file back when the text has changed.  A read that fails is   *)
(* caught in fix_file; a write that fails is not, and ends the run.        *)
(***************************************************************************)
\* the most files under DOCS_DIR
MaxFiles == 2

\* the paths of the files, relative to DOCS_DIR, in the order of Path
AllPaths ==
    << "README.md", "examples/voice/c.md", "guides/a.md", "integrations/llm/openai/b.md" >>

\* sorted(md_files)
sorted(files) == SelectSeq(AllPaths, LAMBDA f : f \in files)

\* the texts of the files
Texts ==
    { Chars("[a](/pkg/x.go) [b](./README.md)"),
      Chars("[c](../../api-docs/packages/voice/s2s.md)"),
      Chars("see [d](../use-cases/voice-sessions.md)"),
      Chars("/api/packages/llms.md [p](./providers/openai/)"),
      Chars("[e](./ok.md)") }

\* a file: its text, whether read_text succeeds on it and whether write_text does
FileStates ==
    { [text |-> t, readable |-> m[1], writable |-> m[2]] :
          t \in Texts, m \in {<<TRUE, TRUE>>, <<TRUE, FALSE>>, <<FALSE, TRUE>>} }

\* the trees under DOCS_DIR: up to MaxFiles files
Trees ==
    UNION { [fs -> FileStates] :
              fs \in {S \in SUBSET {AllPaths[k] : k \in 1..Len(AllPaths)} :
                         Cardinality(S) <= MaxFiles} }

\* the rules 1 to 31 of fix_file on the text t of the file at path f, computed
\* once for every path and text of the trees
Fixed ==
    [f \in {AllPaths[k] : k \in 1..Len(AllPaths)}, t \in Texts |->
        ApplyRules(1, Chars(f), [content |-> t, local_changes |-> 0])]

LinksInit ==
    /\ docs \in Trees
    /\ pc = "main"
    /\ md_files = << >>
    /\ md_file = 0
    /\ local_changes = 0
    /\ changes_made = 0
    /\ files_modified = {}
    /\ stdout = << >>
    /\ returns = << >>
    /\ content = << >> /\ original = << >>
    /\ lines = << >> /\ i = 0 /\ result = << >>
    /\ in_code_block = FALSE /\ code_lang = None
    /\ ret = << >> /\ ret2 = << >> /\ esc = NoEsc /\ trace = << >> /\ merges = << >>
    /\ disk = << >> /\ frontmatter = << >> /\ body = << >> /\ prev = << >>

\* the variables fix-doc-links.py does not have
idleVars ==
    <<lines, i, result, in_code_block, code_lang, ret, ret2, esc, trace, merges,
      disk, frontmatter, body, prev>>

\* the file fix_file is called on
file_path == md_files[md_file]

\* md_files = list(DOCS_DIR.rglob("*.md")), and the loop starts over sorted(md_files)
ListFiles ==
    /\ pc = "main"
    /\ md_files' = sorted(DOMAIN docs)
    /\ md_file' = 1
    /\ stdout' = Append(stdout, [msg |-> "Found", n |-> Cardinality(DOMAIN docs)])
    /\ pc' = "fix_file"
    /\ UNCHANGED <<docs, content, original, local_changes, changes_made, files_modified,
                   returns, idleVars>>

\* content = file_path.read_text(); original = content; local_changes = 0
ReadText ==
    /\ pc = "fix_file" /\ md_file <= Len(md_files)
    /\ docs[file_path].readable
    /\ content' = docs[file_path].text
    /\ original' = docs[file_path].text
    /\ local_changes' = 0
    /\ pc' = "rules"
    /\ UNCHANGED <<docs, md_files, md_file, changes_made, files_modified, stdout,
                   returns, idleVars>>

\* a variant of ReadFails without the except clause: the exception leaves main
ReadFails_Uncaught ==
    /\ pc = "fix_file" /\ md_file <= Len(md_files)
    /\ ~docs[file_path].readable
    /\ pc' = "aborted"
    /\ UNCHANGED <<docs, md_files, md_file, content, original, local_changes,
                   changes_made, files_modified, stdout, returns, idleVars>>

\* read_text raises: "except Exception" prints the error and fix_file returns 0
ReadFails ==
    /\ pc = "fix_file" /\ md_file <= Len(md_files)
    /\ ~docs[file_path].readable
    /\ stdout' = Append(stdout, [msg |-> "Error reading", file |-> file_path])
    /\ returns' = Append(returns, 0)
    /\ md_file' = md_file + 1
    /\ UNCHANGED <<docs, md_files, content, original, local_changes, changes_made,
                   files_modified, pc, idleVars>>

\* the rules 1 to 31
FixLinks ==
    /\ pc = "rules"
    /\ content' = Fixed[file_path, content].content
    /\ local_changes' = Fixed[file_path, content].local_changes
    /\ pc' = "write"
    /\ UNCHANGED <<docs, md_files, md_file, original, changes_made, files_modified,
                   stdout, returns, idleVars>>

\* "if content != original": the file is written and counted, fix_file returns
\* local_changes
WriteText ==
    /\ pc = "write"
    /\ content # original
    /\ docs[file_path].writable
    /\ docs' = [docs EXCEPT ![file_path].text = content]
    /\ files_modified' = files_modified \cup {file_path}
    /\ changes_made' = changes_made + local_changes
    /\ stdout' = Append(stdout, [msg |-> "Fixed", file |-> file_path,
                                 patterns |-> local_changes])
    /\ returns' = Append(returns, local_changes)
    /\ md_file' = md_file + 1
    /\ pc' = "fix_file"
    /\ UNCHANGED <<md_files, content, original, local_changes, idleVars>>

\* write_text raises: the exception leaves fix_file and main
WriteFails ==
    /\ pc = "write"
    /\ content # original
    /\ ~docs[file_path].writable
    /\ pc' = "aborted"
    /\ UNCHANGED <<docs, md_files, md_file, content, original, local_changes,
                   changes_made, files_modified, stdout, returns, idleVars>>

\* content == original: return 0
Unchanged ==
    /\ pc = "write"
    /\ content = original
    /\ returns' = Append(returns, 0)
    /\ md_file' = md_file + 1
    /\ pc' = "fix_file"
    /\ UNCHANGED <<docs, md_files, content, original, local_changes, changes_made,
                   files_modified, stdout, idleVars>>

\* the loop is over: print(f"Done! Modified {len(files_modified)} files with
\* {changes_made} pattern fixes.")
Summary ==
    /\ pc = "fix_file" /\ md_file > Len(md_files)
    /\ stdout' = Append(stdout, [msg |-> "Done", files |-> Cardinality(files_modified),
                                 fixes |-> changes_made])
    /\ pc' = "done"
    /\ UNCHANGED <<docs, md_files, md_file, content, original, local_changes,
                   changes_made, files_modified, returns, idleVars>>

LinksNext ==
    \/ ListFiles
    \/ ReadText
    \/ ReadFails
    \/ FixLinks
    \/ WriteText
    \/ WriteFails
    \/ Unchanged
    \/ Summary

LinksSpec == LinksInit /\ [][LinksNext]_vars

\* main runs on: no step of it that can be taken is put off for ever (every
\* step of main changes pc or md_file)
LinksFairSpec == LinksSpec /\ WF_<<pc, md_file>>(LinksNext)

(***************************************************************************)
(* Properties of the scanner.                                              *)
(***************************************************************************)
\* the number of lines of ls whose stripped text starts with the fence marker
FenceCount(ls) == Cardinality({k \in 1..Len(ls) : IsFenceLine(ls[k])})

\* a bare marker: a fence line with nothing after the marker
IsBareFence(line) == IsFenceLine(line) /\ FenceRest(line) = << >>

\* the scanner has returned
Returned == pc \in {"returned", "rescanned", "escaped"}

\* C1: fix_fragmented_blocks is idempotent: the scanner run on its own output
\* returns that output unchanged.
C1_Idempotent == pc \in {"rescanned", "escaped"} => ret2 = ret

\* the body holds a well-formed fence pair: a fence line, then a bare marker,
\* with no fence line between them
HasFencePair(ls) ==
    \E a, b \in 1..Len(ls) :
        /\ a < b
        /\ IsFenceLine(ls[a])
        /\ IsBareFence(ls[b])
        /\ \A k \in (a + 1)..(b - 1) : ~IsFenceLine(ls[k])

\* C2 as stated: whenever the input holds at least one well-formed fence pair,
\* the number of fence lines of the output is even.
C2_EvenAfterPair ==
    (Returned /\ HasFencePair(lines)) => FenceCount(split(ret)) % 2 = 0

\* C2 as amended: the output has exactly as many fence lines as the input, so
\* their number is even exactly when the input's is.
C2_FenceCountKept == Returned => FenceCount(split(ret)) = FenceCount(lines)

\* a merge has happened in a body with one fence pair
C2_Witness ==
    /\ pc = "returned" /\ merges # << >>
    /\ HasFencePair(lines) /\ FenceCount(lines) = 2

\* the main loop is at a bare marker while inside a code block
AtClosingFence ==
    pc = "loop" /\ i <= Len(lines) /\ in_code_block /\ IsBareFence(lines[i])

IsBlankLine(line) == strip(line) = << >>

\* the index of the first line after the fence at i and at most one blank line
AfterGap == IF i + 1 <= Len(lines) /\ IsBlankLine(lines[i + 1]) THEN i + 2 ELSE i + 1

\* the line after the gap is accepted by the code-continuation heuristic and is
\* no blank line, heading, fence or clearly-prose line
OrphanAhead ==
    /\ AfterGap <= Len(lines)
    /\ LET l == lines[AfterGap]
       IN  /\ ~IsBlankLine(l)
           /\ is_code_continuation(l, << >>)
           /\ ~startswith(strip(l), <<"#">>)
           /\ ~IsFenceLine(l)
           /\ ~is_markdown_text(l)

\* the fragment of the orphan-merge scenario and the body expected for it
MergeExample == <<TagFence, FuncLine, BareFence, Blank, Brace>>
MergeExpected == <<TagFence, FuncLine, Brace, BareFence>>

\* C4: a bare closing fence met inside a code block and followed by at most
\* one blank line and then a code-continuation line is merged: the step appends
\* to the output a non-empty run of the input lines that starts right after the
\* gap, unchanged, then one bare fence, moves past the run and leaves the code
\* block; and the body [```go, func f() {, ```, blank, }] comes out as one
\* fence pair around the two lines.
C4_OrphanMerge ==
    /\ [][(AtClosingFence /\ OrphanAhead) =>
            /\ \E n \in 1..(Len(lines) - AfterGap + 1) :
                  /\ result' = result \o SubSeq(lines, AfterGap, AfterGap + n - 1)
                                      \o <<FENCE>>
                  /\ i' = AfterGap + n
            /\ in_code_block' = FALSE]_vars
    /\ []((Returned /\ lines = MergeExample) => ret = join(MergeExpected))

\* the scenario has been scanned and its orphan merged across the blank line
C4_Witness ==
    /\ pc = "returned" /\ lines = MergeExample
    /\ Len(merges) = 1 /\ merges[1].at = 3 /\ merges[1].orphan_code = <<Brace>>

\* a prose line: more than 10 words and none of the code substrings
IsLongProse(line) ==
    /\ NumWords(strip(line)) > 10
    /\ \A c \in CodeChars : ~contains(strip(line), c)

\* the fence at index k is followed by one blank line and then a prose line
ProseAhead(k) ==
    /\ k + 2 <= Len(lines)
    /\ IsBlankLine(lines[k + 1])
    /\ IsLongProse(lines[k + 2])

\* the indexes the main loop has visited
Visited == {trace[e].at : e \in 1..Len(trace)}

\* in_code_block after the iteration that visited index k
StateAfter(k) == trace[CHOOSE e \in 1..Len(trace) : trace[e].at = k].in_code_block

\* C5: a closing fence followed by a blank line and a prose line of more than
\* 10 words without code substrings is never merged, whatever the indentation
\* or the first token of the prose line: the step emits the fence itself and
\* moves to the next line, and the blank line and the prose line are then
\* visited by the main loop outside the block.
C5_NoMergeBeforeProse ==
    /\ [][(AtClosingFence /\ ProseAhead(i)) =>
            /\ result' = Append(result, lines[i])
            /\ i' = i + 1
            /\ in_code_block' = FALSE
            /\ merges' = merges]_vars
    /\ [](Returned =>
            \A k \in Visited :
                (/\ IsBareFence(lines[k]) /\ ProseAhead(k)
                 /\ k > 1 /\ (k - 1) \in Visited /\ StateAfter(k - 1))
                => /\ {k + 1, k + 2} \subseteq Visited
                   /\ ~StateAfter(k) /\ ~StateAfter(k + 1) /\ ~StateAfter(k + 2))

\* closing fences before a blank line and a prose line that is indented, that
\* starts with a keyword or with a comment marker have been met and not merged
C5_Witness ==
    /\ pc = "returned" /\ merges = << >>
    /\ Len(lines) = 5 /\ IsBareFence(lines[3]) /\ lines[4] = Blank
    /\ lines[5] \in {IndentedProse, ReturnProse, CommentProse}
    /\ is_code_continuation(lines[5], << >>)

\* whether a is a subsequence of b: the elements of a occur in b in their order
RECURSIVE IsSubseq(_, _)
IsSubseq(a, b) ==
    IF a = << >> THEN TRUE
    ELSE IF b = << >> THEN FALSE
    ELSE IF Head(a) = Head(b) THEN IsSubseq(Tail(a), Tail(b))
    ELSE IsSubseq(a, Tail(b))

\* the elements of ls at the indexes of the set K from k on, in their order
RECURSIVE Pick(_, _, _)
Pick(ls, K, k) ==
    IF k > Len(ls) THEN << >>
    ELSE (IF k \in K THEN <<ls[k]>> ELSE << >>) \o Pick(ls, K, k + 1)

\* whether the input line at index k lies inside a fenced block, by the rule
\* of section 4.1 read over the input alone: a marker with an alphabetic tag
\* opens, any other marker closes an open block and opens one otherwise
RECURSIVE OpenAfter(_)
OpenAfter(k) ==
    IF k = 0 THEN FALSE
    ELSE IF ~IsFenceLine(lines[k]) THEN OpenAfter(k - 1)
    ELSE IF FenceRest(lines[k]) # << >> /\ isalpha(FenceRest(lines[k])[1]) THEN TRUE
    ELSE ~OpenAfter(k - 1)

\* the line at index k is outside every fenced block
IsOutside(k) == ~IsFenceLine(lines[k]) /\ ~OpenAfter(k - 1)

\* the line at index k is part of a merged orphan run
InOrphanRun(k) ==
    \E m \in 1..Len(merges) :
        merges[m].j - Len(merges[m].orphan_code) <= k /\ k < merges[m].j

\* the line at index k is part of the blank gap between a closing fence and
\* the orphan run merged at it
InMergedGap(k) ==
    \E m \in 1..Len(merges) :
        merges[m].at < k /\ k < merges[m].j - Len(merges[m].orphan_code)

C7_KeepStated(k) == IsOutside(k) /\ ~InOrphanRun(k)
C7_KeepAmended(k) == IsOutside(k) /\ ~InOrphanRun(k) /\ ~InMergedGap(k)

\* C7 as stated: the input lines outside fenced blocks that are part of no
\* merged orphan run occur in the output unchanged and in their order, and
\* with no merge the output is the input line for line.
C7_OutsideKept ==
    Returned =>
        /\ IsSubseq(Pick(lines, {k \in 1..Len(lines) : C7_KeepStated(k)}, 1), split(ret))
        /\ (merges = << >> => split(ret) = lines)

\* C7 as amended: the same of the lines that are part neither of a merged
\* orphan run nor of the blank gap between a closing fence and the run merged
\* at it, which the merge drops.
C7_OutsideKeptButGap ==
    Returned =>
        /\ IsSubseq(Pick(lines, {k \in 1..Len(lines) : C7_KeepAmended(k)}, 1), split(ret))
        /\ (merges = << >> => split(ret) = lines)

\* a merge across a blank line has happened, with lines outside the block
\* after it
C7_Witness ==
    /\ pc = "returned" /\ Len(merges) = 1
    /\ InMergedGap(4)
    /\ Len(lines) = 7 /\ C7_KeepAmended(6) /\ C7_KeepAmended(7)

\* C10: with no orphan merge, escape_jsx_patterns and the scanner compute the
\* same in_code_block after every line.
C10_SameTracking ==
    (pc = "escaped" /\ merges = << >>) =>
        esc.trace = [k \in 1..Len(trace) |-> trace[k].in_code_block]

\* the indexes of the lines of the orphan run of the m-th merge
RunOf(m) == (merges[m].j - Len(merges[m].orphan_code))..(merges[m].j - 1)

\* next_stripped.startswith('#')
IsHeading(line) == startswith(strip(line), <<"#">>)

\* C11: the orphan run of a merge is not empty and is a run of consecutive
\* input lines; its first line satisfies the code-continuation heuristic; it
\* holds no blank line, heading or fence line; and it goes on over every line
\* after the first, whether the heuristic accepts the line or not, up to the
\* end of the input or the first line that is blank, a heading, a fence or
\* clearly-prose.
C11_LoosenedRun ==
    \A m \in 1..Len(merges) :
        LET j == merges[m].j
            run == merges[m].orphan_code
        IN  /\ run # << >>
            /\ merges[m].at < j - Len(run)
            /\ run = [k \in 1..Len(run) |-> lines[j - Len(run) - 1 + k]]
            /\ is_code_continuation(run[1], << >>)
            /\ \A k \in RunOf(m) :
                   ~IsBlankLine(lines[k]) /\ ~IsHeading(lines[k]) /\ ~IsFenceLine(lines[k])
            /\ j <= Len(lines) =>
                   \/ IsBlankLine(lines[j]) \/ IsHeading(lines[j])
                   \/ IsFenceLine(lines[j]) \/ is_markdown_text(lines[j])

\* a run has been merged that holds, after its first line, a line the
\* code-continuation heuristic does not accept, and that stopped before the
\* end of the input
C11_Witness ==
    /\ Returned
    /\ \E m \in 1..Len(merges) :
           /\ \E k \in RunOf(m) : ~is_code_continuation(lines[k], << >>)
           /\ merges[m].j <= Len(lines)

\* the main loop is about to run an iteration
InLoop == pc = "loop" /\ i <= Len(lines)

\* the number of iterations of the main loop that visited the line at index k
Visits(k) == Cardinality({e \in 1..Len(trace) : trace[e].at = k})

\* the number of merges whose lookahead went over the line at index k: the
\* blank gap and the orphan run between the closing fence and j
Consumptions(k) ==
    Cardinality({m \in 1..Len(merges) : merges[m].at < k /\ k < merges[m].j})

\* C12: fix_fragmented_blocks terminates: every iteration of the main loop
\* moves i forward, by one or, at a merge, to the lookahead index j, which is
\* past the fence and not past the end of the lines (j <= len(lines) in the
\* source's counting from 0, Len(lines) + 1 here); the loop returns; and by
\* then every line has been visited once by the main loop or consumed by one
\* merge, and not both.
C12_Terminates ==
    /\ [][InLoop =>
            /\ i' > i
            /\ i' <= Len(lines) + 1
            /\ \/ i' = i + 1 /\ merges' = merges
               \/ /\ Len(merges') = Len(merges) + 1
                  /\ merges'[Len(merges')].at = i
                  /\ i' = merges'[Len(merges')].j
                  /\ i' >= i + 1]_vars
    /\ [](\A m \in 1..Len(merges) : merges[m].j <= Len(lines) + 1)
    /\ [](AtClosingFence => Lookahead(lines, i).j \in (i + 1)..(Len(lines) + 1))
    /\ [](Len(trace) <= Len(lines))
    /\ [](Returned => \A k \in 1..Len(lines) : Visits(k) + Consumptions(k) = 1)
    /\ <>Returned

\* the scanner has returned after a merge whose lookahead went to the end of
\* the lines, and after an iteration that moved i by one
C12_Witness ==
    /\ Returned
    /\ \E m \in 1..Len(merges) : merges[m].j = Len(lines) + 1
    /\ \E k \in 1..Len(lines) : Consumptions(k) = 1
    /\ \E k \in 1..Len(lines) : Visits(k) = 1

(***************************************************************************)
(* Properties of fix_markdown_file and its passes.                         *)
(***************************************************************************)
\* fix_markdown_file has returned
FileDone == pc \in {"fixed", "unchanged"}

\* the index of the line that closes the frontmatter block of the lines ls: the
\* first line after the first that is `---`; 0 when ls does not start with a
\* `---` line or has no second one
FrontmatterEnd(ls) ==
    IF ls[1] = Dashes /\ \E k \in 2..Len(ls) : ls[k] = Dashes
    THEN CHOOSE k \in 2..Len(ls) : ls[k] = Dashes /\ \A h \in 2..(k - 1) : ls[h] # Dashes
    ELSE 0

\* the frontmatter block of a text that has one: its lines up to the closing `---`
FrontmatterBlock(text) == join(SubSeq(split(text), 1, FrontmatterEnd(split(text))))

\* C3: the content produced for a document that starts with a frontmatter
\* block delimited by `---` lines begins with that block, byte for byte.
C3_FrontmatterKept ==
    (FileDone /\ FrontmatterEnd(split(original)) > 0) =>
        startswith(frontmatter \o body, FrontmatterBlock(original))

\* the lines ls from index k on with every empty fence pair (a fence line met
\* outside a block, blank lines only, a bare marker) collapsed to one empty
\* line, open telling whether line k is inside a block
RECURSIVE WithoutEmptyPairs(_, _, _)
WithoutEmptyPairs(ls, k, open) ==
    IF k > Len(ls) THEN << >>
    ELSE IF ~IsFenceLine(ls[k]) THEN <<ls[k]>> \o WithoutEmptyPairs(ls, k + 1, open)
    ELSE IF open
    THEN <<ls[k]>> \o WithoutEmptyPairs(ls, k + 1,
                         ~(IsBareFence(ls[k]) \/ ~isalpha(FenceRest(ls[k])[1])))
    ELSE LET b == SkipBlank(ls, k + 1)
         IN  IF b <= Len(ls) /\ IsBareFence(ls[b])
             THEN <<Blank>> \o WithoutEmptyPairs(ls, b + 1, FALSE)
             ELSE <<ls[k]>> \o WithoutEmptyPairs(ls, k + 1, TRUE)

\* C6: remove_empty_code_blocks removes exactly the fence pairs with nothing
\* but blank lines between the opening fence and its closing fence, and leaves
\* every other line, the fences of blocks with content among them, unchanged.
C6_OnlyEmptyPairsRemoved ==
    pc = "stripped" => split(body) = WithoutEmptyPairs(split(prev), 1, FALSE)

\* C8: decode_html_entities never raises, and it turns
\* &#91;a&#123;b&#125;c&#93; into [a{b}c].
C8_DecodeTotal ==
    /\ pc # "raised"
    /\ (pc = "decoded" /\ prev = EntityLine)
        => body = <<"[", "a", "{", "b", "}", "c", "]">>

(***************************************************************************)
(* Properties of fix-doc-links.py.                                         *)
(***************************************************************************)
\* fix_file is called on a file whose read fails
AtUnreadable ==
    pc = "fix_file" /\ md_file <= Len(md_files) /\ ~docs[file_path].readable

\* the write of the file at path f would fail: the file can be read, the rules
\* change its text, and write_text raises
WriteWouldFail(f) ==
    /\ docs[f].readable /\ ~docs[f].writable
    /\ Fixed[f, docs[f].text].content # docs[f].text

====
